---- MODULE Spec2Model ----
(***************************************************************************)
(* The ENEM preprocessing pipeline of src/src/data/preprocessing.py:       *)
(* optimize_dtypes, map_categories, handle_missing_values, validate_data   *)
(* and create_derived_features, applied to one table (a pandas DataFrame). *)
(*                                                                         *)
(* A table is a function from the names of its columns to columns; a       *)
(* column is a dtype and a sequence of cells, one per row.  The pandas     *)
(* operations the stages call are modelled with the behaviour of pandas    *)
(* 2.x on numpy dtypes: astype to a numpy integer wraps silently and       *)
(* rejects NaN; Categorical.fillna rejects a value that is not a category  *)
(* (also when nothing is missing); Series.mode sorts its result;           *)
(* idxmax/idxmin skip NaN, take the first extreme and give NaN for a row   *)
(* that is all NaN.  Floating-point values are exact rationals.            *)
(***************************************************************************)
EXTENDS Integers, Sequences, FiniteSets, TLC

\* Most rows of a table with at most MaxCols columns.
MaxRows == 2
\* Most columns of a table that is not a score sheet.
MaxCols == 2
\* Rows of a score sheet (a table of core score columns only).
SheetRows == 1

VARIABLES
    df,                 \* the table
    call,               \* the last stage call: [op, numeric_strategy, categorical_strategy]
    rerun,              \* the last call repeated the call before it
    imputation_values,  \* the mapping the last call returned (handle_missing_values)
    issues,             \* the list the last call returned (validate_data)
    raised              \* an exception left the last call

vars == <<df, call, rerun, imputation_values, issues, raised>>

----------------------------------------------------------------------------
\* Cells.  k: "na" (NaN/None), "num" (the rational n/d, d > 0, in lowest
\* terms), "sqrt" (the square root of n/d), "str" (the string s).

RECURSIVE GCD(_, _)
GCD(a, b) == IF b = 0 THEN a ELSE GCD(b, a % b)

Abs(x) == IF x < 0 THEN -x ELSE x

NA == [k |-> "na", n |-> 0, d |-> 1, s |-> ""]

Rat(n, d) ==
    LET g == GCD(Abs(n), d)
    IN  [k |-> "num", n |-> n \div g, d |-> d \div g, s |-> ""]

Num(n) == [k |-> "num", n |-> n, d |-> 1, s |-> ""]

Sqrt(r) == [k |-> "sqrt", n |-> r.n, d |-> r.d, s |-> ""]

Str(t) == [k |-> "str", n |-> 0, d |-> 1, s |-> t]

IsNA(c) == c.k = "na"

\* a < b, a <= b on "num" cells
Lt(a, b) == a.n * b.d < b.n * a.d
Le(a, b) == a.n * b.d <= b.n * a.d

Add(a, b) == Rat(a.n * b.d + b.n * a.d, a.d * b.d)
Sub(a, b) == Rat(a.n * b.d - b.n * a.d, a.d * b.d)
Mul(a, b) == Rat(a.n * b.n, a.d * b.d)
DivInt(a, m) == Rat(a.n, a.d * m)

\* Python's order of the strings the modelled columns can hold.
StrOrder ==
    <<"F", "Female", "Human Sciences", "Languages", "M", "Male", "Mathematics",
      "Natural Sciences", "Not Informed", "Private", "Public", "Unknown", "X">>

StrRank(t) == CHOOSE i \in 1..Len(StrOrder) : StrOrder[i] = t

\* The order np.sort gives the values of one column (all numbers or all strings).
CellLt(a, b) ==
    IF a.k = "str" /\ b.k = "str" THEN StrRank(a.s) < StrRank(b.s)
    ELSE IF a.k = "num" /\ b.k = "num" THEN Lt(a, b)
    ELSE a.k = "num" /\ b.k = "str"

Range(f) == {f[i] : i \in DOMAIN f}

Present(col) == {i \in DOMAIN col.vals : ~IsNA(col.vals[i])}
Missing(col) == {i \in DOMAIN col.vals : IsNA(col.vals[i])}
HasNull(col) == Missing(col) # {}

----------------------------------------------------------------------------
\* Configuration.

DTYPE_ORDER ==
    <<"NU_INSCRICAO", "NU_ANO", "TP_FAIXA_ETARIA", "TP_SEXO", "TP_ESTADO_CIVIL",
      "TP_COR_RACA", "TP_NACIONALIDADE", "TP_ST_CONCLUSAO", "TP_ANO_CONCLUIU",
      "TP_ESCOLA", "NU_NOTA_CN", "NU_NOTA_CH", "NU_NOTA_LC", "NU_NOTA_MT",
      "NU_NOTA_REDACAO">>

DTYPE_MAPPINGS(col) ==
    CASE col = "NU_INSCRICAO" -> "int64"
      [] col \in {"NU_ANO", "TP_ANO_CONCLUIU"} -> "int16"
      [] col = "TP_FAIXA_ETARIA" -> "int8"
      [] col \in {"TP_SEXO", "TP_ESTADO_CIVIL", "TP_COR_RACA", "TP_NACIONALIDADE",
                  "TP_ST_CONCLUSAO", "TP_ESCOLA"} -> "category"
      [] OTHER -> "float32"

CATEGORY_ORDER ==
    <<"TP_SEXO", "TP_ESTADO_CIVIL", "TP_COR_RACA", "TP_NACIONALIDADE",
      "TP_ST_CONCLUSAO", "TP_ESCOLA">>

\* code -> label, as a set of <<code, label>> pairs
CATEGORY_MAPPINGS(col) ==
    CASE col = "TP_SEXO" -> {<<Str("M"), "Male">>, <<Str("F"), "Female">>}
      [] col = "TP_ESTADO_CIVIL" ->
            {<<Num(0), "Not Informed">>, <<Num(1), "Single">>, <<Num(2), "Married">>,
             <<Num(3), "Divorced">>, <<Num(4), "Widowed">>}
      [] col = "TP_COR_RACA" ->
            {<<Num(0), "Not Declared">>, <<Num(1), "White">>, <<Num(2), "Black">>,
             <<Num(3), "Brown">>, <<Num(4), "Yellow">>, <<Num(5), "Indigenous">>}
      [] col = "TP_NACIONALIDADE" ->
            {<<Num(0), "Not Informed">>, <<Num(1), "Brazilian">>,
             <<Num(2), "Brazilian Naturalized">>, <<Num(3), "Foreign">>,
             <<Num(4), "Brazilian Born Abroad">>}
      [] col = "TP_ST_CONCLUSAO" ->
            {<<Num(1), "Completed">>, <<Num(2), "Completing This Year">>,
             <<Num(3), "Not Completed Yet">>, <<Num(4), "Not Completed">>}
      [] col = "TP_ESCOLA" ->
            {<<Num(1), "Not Informed">>, <<Num(2), "Public">>, <<Num(3), "Private">>}

Labels(col) == {p[2] : p \in CATEGORY_MAPPINGS(col)}

score_cols == <<"NU_NOTA_CN", "NU_NOTA_CH", "NU_NOTA_LC", "NU_NOTA_MT">>

SubjectName(col) ==
    CASE col = "NU_NOTA_CN" -> "Natural Sciences"
      [] col = "NU_NOTA_CH" -> "Human Sciences"
      [] col = "NU_NOTA_LC" -> "Languages"
      [] col = "NU_NOTA_MT" -> "Mathematics"

DerivedCols == {"AVERAGE_SCORE", "SCORE_STD", "BEST_SUBJECT", "WORST_SUBJECT"}

\* The order of the table's columns: the raw columns, then the derived ones
\* in the order create_derived_features adds them.
ColumnOrder ==
    DTYPE_ORDER \o <<"AVERAGE_SCORE", "SCORE_STD", "BEST_SUBJECT", "WORST_SUBJECT">>

NRows(t) == Len(t[CHOOSE c \in DOMAIN t : TRUE].vals)

\* The entries of seq that are columns of t, in the order of seq.
InTable(seq, t) == SelectSeq(seq, LAMBDA c : c \in DOMAIN t)

\* df.columns
Columns(t) == InTable(ColumnOrder, t)

----------------------------------------------------------------------------
\* optimize_dtypes

\* x as a two's-complement integer of the width of dtype; every modelled
\* value lies in the range of int64.
WrapInt(x, dtype) ==
    CASE dtype = "int8" -> ((x + 128) % 256) - 128
      [] dtype = "int16" -> ((x + 32768) % 65536) - 32768
      [] OTHER -> x

\* n/d truncated toward zero
Trunc(c) == IF c.n >= 0 THEN c.n \div c.d ELSE -((-c.n) \div c.d)

IsIntDtype(dtype) == dtype \in {"int8", "int16", "int32", "int64"}

\* Series.astype(dtype): [ok |-> FALSE] when it raises.
astype(col, dtype) ==
    IF dtype = "category"
    THEN [ok |-> TRUE, col |-> [dtype |-> "category", vals |-> col.vals]]
    ELSE IF \E i \in DOMAIN col.vals : col.vals[i].k = "str"
    THEN [ok |-> FALSE, col |-> col]       \* ValueError: could not convert string
    ELSE IF IsIntDtype(dtype)
    THEN IF HasNull(col)
         THEN [ok |-> FALSE, col |-> col]  \* IntCastingNaNError
         ELSE [ok |-> TRUE,
               col |-> [dtype |-> dtype,
                        vals |-> [i \in DOMAIN col.vals |->
                                    Num(WrapInt(Trunc(col.vals[i]), dtype))]]]
    ELSE [ok |-> TRUE, col |-> [dtype |-> dtype, vals |-> col.vals]]

\* The try block of optimize_dtypes for column c of the table.
OptimizeColumn(t, c) ==
    LET r == astype(t[c], DTYPE_MAPPINGS(c))
    IN  IF r.ok THEN [t EXCEPT ![c] = r.col] ELSE t

\* optimize_dtypes with the try around the loop instead of inside it: the
\* first failing conversion ends the stage.
RECURSIVE OptimizeFromAbort(_, _, _)
OptimizeFromAbort(t, cols, i) ==
    IF i > Len(cols) THEN t
    ELSE IF ~astype(t[cols[i]], DTYPE_MAPPINGS(cols[i])).ok THEN t
    ELSE OptimizeFromAbort(OptimizeColumn(t, cols[i]), cols, i + 1)

\* The loop of optimize_dtypes over cols, the configured columns that are in
\* the table (the others are skipped), from cols[i] on.
RECURSIVE OptimizeFrom(_, _, _)
OptimizeFrom(t, cols, i) ==
    IF i > Len(cols) THEN t
    ELSE OptimizeFrom(OptimizeColumn(t, cols[i]), cols, i + 1)

optimize_dtypes(t) == OptimizeFrom(t, InTable(DTYPE_ORDER, t), 1)

----------------------------------------------------------------------------
\* map_categories

\* mapping.get(cell): the label of a code, NaN for anything else
Lookup(cell, mapping) ==
    IF \E p \in mapping : p[1] = cell
    THEN Str((CHOOSE p \in mapping : p[1] = cell)[2])
    ELSE NA

FillCell(cell, value) == IF IsNA(cell) THEN value ELSE cell

\* The categories of a categorical column: the values astype('category') found.
Categories(col) == {col.vals[i] : i \in Present(col)}

\* df[col].map(mapping).fillna('Unknown'): [ok |-> FALSE] when it raises.
\* Categorical.map keeps the result categorical when every category has a
\* label; 'Unknown' is then no category of it and fillna raises TypeError.
\* Otherwise the result is an object column.
MapFill(col, mapping) ==
    IF col.dtype = "category" /\ \A v \in Categories(col) : ~IsNA(Lookup(v, mapping))
    THEN [ok |-> FALSE, col |-> col]
    ELSE [ok |-> TRUE,
          col |-> [dtype |-> "object",
                   vals |-> [i \in DOMAIN col.vals |->
                               FillCell(Lookup(col.vals[i], mapping), Str("Unknown"))]]]

\* The try block of map_categories for column c of the table.
MapColumn(t, c) ==
    LET r == MapFill(t[c], CATEGORY_MAPPINGS(c))
    IN  IF r.ok THEN [t EXCEPT ![c] = r.col] ELSE t

\* The loop of map_categories over cols, the configured columns that are in
\* the table (the others are skipped), from cols[i] on.
RECURSIVE MapFrom(_, _, _)
MapFrom(t, cols, i) ==
    IF i > Len(cols) THEN t
    ELSE MapFrom(MapColumn(t, cols[i]), cols, i + 1)

map_categories(t) == MapFrom(t, InTable(CATEGORY_ORDER, t), 1)

----------------------------------------------------------------------------
\* handle_missing_values

\* df.select_dtypes(include=['int', 'float'])
IsNumericDtype(dtype) == dtype \in {"int32", "int64", "float32", "float64"}
\* df.select_dtypes(include=['category', 'object'])
IsCategoricalDtype(dtype) == dtype \in {"category", "object"}

RECURSIVE SumCells(_, _)
SumCells(vals, idx) ==
    IF idx = {} THEN Num(0)
    ELSE LET i == CHOOSE j \in idx : TRUE
         IN  Add(vals[i], SumCells(vals, idx \ {i}))

\* Series.mean(): NaN when nothing is present
Mean(col) ==
    IF Present(col) = {} THEN NA
    ELSE DivInt(SumCells(col.vals, Present(col)), Cardinality(Present(col)))

\* the k-th smallest of the present values
KthSmallest(col, k) ==
    CHOOSE v \in Categories(col) :
        /\ Cardinality({i \in Present(col) : Lt(col.vals[i], v)}) < k
        /\ Cardinality({i \in Present(col) : Le(col.vals[i], v)}) >= k

\* Series.median(): NaN when nothing is present
Median(col) ==
    LET m == Cardinality(Present(col))
    IN  IF m = 0 THEN NA
        ELSE IF m % 2 = 1 THEN KthSmallest(col, (m + 1) \div 2)
        ELSE DivInt(Add(KthSmallest(col, m \div 2), KthSmallest(col, m \div 2 + 1)), 2)

Count(col, v) == Cardinality({i \in DOMAIN col.vals : col.vals[i] = v})

\* Series.mode(): the most frequent present values, sorted
Modes(col) ==
    {v \in Categories(col) : \A w \in Categories(col) : Count(col, w) <= Count(col, v)}

\* Series.fillna(value)
FillNa(col, value) ==
    [col EXCEPT !.vals = [i \in DOMAIN col.vals |-> FillCell(col.vals[i], value)]]

NumericValue(col, numeric_strategy) ==
    CASE numeric_strategy = "mean" -> Mean(col)
      [] numeric_strategy = "median" -> Median(col)
      [] OTHER -> Num(0)

\* The state of a call of handle_missing_values: the table, the mapping
\* built so far and whether an exception has ended the call.
HandleNumericColumn(st, c, numeric_strategy) ==
    IF HasNull(st.df[c])
    THEN LET value == NumericValue(st.df[c], numeric_strategy)
         IN  [st EXCEPT !.df = [st.df EXCEPT ![c] = FillNa(st.df[c], value)],
                        !.imputation_values = @ \cup {<<c, value>>}]
    ELSE st

HandleCategoricalColumn(st, c, categorical_strategy) ==
    IF st.raised THEN st
    ELSE IF HasNull(st.df[c])
    THEN IF categorical_strategy = "mode" /\ Modes(st.df[c]) = {}
         THEN [st EXCEPT !.raised = TRUE]      \* mode()[0] of an empty Series
         ELSE IF categorical_strategy # "mode" /\ st.df[c].dtype = "category"
         THEN [st EXCEPT !.raised = TRUE]      \* 'Unknown' is no category
         ELSE LET value ==
                    IF categorical_strategy = "mode"
                    THEN CHOOSE v \in Modes(st.df[c]) :
                            \A w \in Modes(st.df[c]) : w = v \/ CellLt(v, w)
                    ELSE Str("Unknown")
              IN  [st EXCEPT !.df = [st.df EXCEPT ![c] = FillNa(st.df[c], value)],
                             !.imputation_values = @ \cup {<<c, value>>}]
    ELSE st

\* numeric_cols, cat_cols
NumericCols(t) == SelectSeq(Columns(t), LAMBDA c : IsNumericDtype(t[c].dtype))
CategoricalCols(t) == SelectSeq(Columns(t), LAMBDA c : IsCategoricalDtype(t[c].dtype))

RECURSIVE HandleNumericFrom(_, _, _, _)
HandleNumericFrom(st, cols, i, numeric_strategy) ==
    IF i > Len(cols) THEN st
    ELSE HandleNumericFrom(HandleNumericColumn(st, cols[i], numeric_strategy),
                           cols, i + 1, numeric_strategy)

RECURSIVE HandleCategoricalFrom(_, _, _, _)
HandleCategoricalFrom(st, cols, i, categorical_strategy) ==
    IF i > Len(cols) THEN st
    ELSE HandleCategoricalFrom(
             HandleCategoricalColumn(st, cols[i], categorical_strategy),
             cols, i + 1, categorical_strategy)

\* [df, imputation_values, raised]: the table as the call leaves it, the
\* mapping it returns, and whether it raised instead of returning.
handle_missing_values(t, numeric_strategy, categorical_strategy) ==
    LET numeric == HandleNumericFrom(
                       [df |-> t, imputation_values |-> {}, raised |-> FALSE],
                       NumericCols(t), 1, numeric_strategy)
    IN  HandleCategoricalFrom(numeric, CategoricalCols(numeric.df), 1,
                              categorical_strategy)

----------------------------------------------------------------------------
\* validate_data

\* The range check with the bounds 0 and 1000 themselves counted as invalid.
InvalidScoreInclusive(cell) == ~IsNA(cell) /\ (Le(cell, Num(0)) \/ Le(Num(1000), cell))

\* df[col].notna() & ((df[col] < 0) | (df[col] > 1000))
InvalidScore(cell) == ~IsNA(cell) /\ (Lt(cell, Num(0)) \/ Lt(Num(1000), cell))

\* df['TP_FAIXA_ETARIA'] < 1 (a comparison with NaN is False)
InvalidAge(cell) == ~IsNA(cell) /\ Lt(cell, Num(1))

InvalidScores(col) == {i \in DOMAIN col.vals : InvalidScore(col.vals[i])}
InvalidAges(col) == {i \in DOMAIN col.vals : InvalidAge(col.vals[i])}

\* An issue: the message's wording, the column it is about and the count in it.
Issue(text, col, count) == [text |-> text, col |-> col, count |-> count]

\* The score-range loop from score_cols[i] on.
RECURSIVE ScoreIssuesFrom(_, _)
ScoreIssuesFrom(t, i) ==
    IF i > Len(score_cols) THEN <<>>
    ELSE LET col == score_cols[i]
         IN  (IF col \in DOMAIN t /\ Cardinality(InvalidScores(t[col])) > 0
              THEN <<Issue("invalid scores in", col, Cardinality(InvalidScores(t[col])))>>
              ELSE <<>>) \o ScoreIssuesFrom(t, i + 1)

EssayIssues(t) ==
    IF "NU_NOTA_REDACAO" \in DOMAIN t
          /\ Cardinality(InvalidScores(t["NU_NOTA_REDACAO"])) > 0
    THEN <<Issue("invalid essay scores", "NU_NOTA_REDACAO",
                 Cardinality(InvalidScores(t["NU_NOTA_REDACAO"])))>>
    ELSE <<>>

AgeIssues(t) ==
    IF "TP_FAIXA_ETARIA" \in DOMAIN t
          /\ Cardinality(InvalidAges(t["TP_FAIXA_ETARIA"])) > 0
    THEN <<Issue("invalid age ranges", "TP_FAIXA_ETARIA",
                 Cardinality(InvalidAges(t["TP_FAIXA_ETARIA"])))>>
    ELSE <<>>

\* The columns validate_data compares with a number.
ComparedCols == Range(score_cols) \cup {"NU_NOTA_REDACAO", "TP_FAIXA_ETARIA"}

\* df[col] < 0 raises TypeError on a column holding text and on an
\* (unordered) categorical column; nothing in validate_data catches it.
ComparisonRaises(col) ==
    \/ col.dtype = "category"
    \/ \E i \in DOMAIN col.vals : col.vals[i].k = "str"

validate_data_raises(t) ==
    \E c \in ComparedCols \cap DOMAIN t : ComparisonRaises(t[c])

\* validate_data appending to the list of the call before it (a list shared
\* between calls) instead of a fresh one.
validate_data_accumulating(t) ==
    issues \o ScoreIssuesFrom(t, 1) \o EssayIssues(t) \o AgeIssues(t)

validate_data(t) == ScoreIssuesFrom(t, 1) \o EssayIssues(t) \o AgeIssues(t)

----------------------------------------------------------------------------
\* create_derived_features

\* all(col in df.columns for col in score_cols)
AllScoreCols(t) == \A i \in DOMAIN score_cols : score_cols[i] \in DOMAIN t

\* df[name] = col
SetCol(t, name, col) ==
    [c \in DOMAIN t \cup {name} |-> IF c = name THEN col ELSE t[c]]

\* Row r of df[score_cols], and the positions of its present values.
ScoreRow(t, r) == [i \in DOMAIN score_cols |-> t[score_cols[i]].vals[r]]
RowPresent(row) == {i \in DOMAIN row : ~IsNA(row[i])}

\* mean(axis=1) of one row: over the present values, NaN when there is none
RowMean(row) ==
    IF RowPresent(row) = {} THEN NA
    ELSE DivInt(SumCells(row, RowPresent(row)), Cardinality(RowPresent(row)))

\* std(axis=1) of one row: the sample standard deviation of the present
\* values, NaN when fewer than two are present
RowStd(row) ==
    LET m == Cardinality(RowPresent(row))
        mu == RowMean(row)
        sq == [i \in DOMAIN row |->
                 IF IsNA(row[i]) THEN NA
                 ELSE Mul(Sub(row[i], mu), Sub(row[i], mu))]
    IN  IF m < 2 THEN NA
        ELSE Sqrt(DivInt(SumCells(sq, RowPresent(row)), m - 1))

\* idxmax breaking a tie by the last column instead of the first.
IdxMaxLast(row) ==
    IF RowPresent(row) = {} THEN 0
    ELSE CHOOSE i \in RowPresent(row) :
            /\ \A j \in RowPresent(row) : Le(row[j], row[i])
            /\ \A j \in RowPresent(row) : j > i => Lt(row[j], row[i])

\* idxmax(axis=1) / idxmin(axis=1) of one row: the first position holding the
\* largest / smallest present value; 0 (NaN) when the row is all NaN
IdxMax(row) ==
    IF RowPresent(row) = {} THEN 0
    ELSE CHOOSE i \in RowPresent(row) :
            /\ \A j \in RowPresent(row) : Le(row[j], row[i])
            /\ \A j \in RowPresent(row) : j < i => Lt(row[j], row[i])

IdxMin(row) ==
    IF RowPresent(row) = {} THEN 0
    ELSE CHOOSE i \in RowPresent(row) :
            /\ \A j \in RowPresent(row) : Le(row[i], row[j])
            /\ \A j \in RowPresent(row) : j < i => Lt(row[i], row[j])

\* .map({...}) of an idxmax/idxmin result
SubjectLabel(i) == IF i = 0 THEN NA ELSE Str(SubjectName(score_cols[i]))

\* the dtype of a row-wise reduction of df[score_cols]
ScoresDtype(t) ==
    IF \A i \in DOMAIN score_cols : t[score_cols[i]].dtype = "float32"
    THEN "float32" ELSE "float64"

AddAverage(t) ==
    IF AllScoreCols(t)
    THEN SetCol(t, "AVERAGE_SCORE",
                [dtype |-> ScoresDtype(t),
                 vals |-> [r \in 1..NRows(t) |-> RowMean(ScoreRow(t, r))]])
    ELSE t

\* The dispersion block guarded by the data as well: skipped when a score is
\* missing.
AddStdCompleteOnly(t) ==
    IF AllScoreCols(t) /\ \A i \in DOMAIN score_cols : ~HasNull(t[score_cols[i]])
    THEN SetCol(t, "SCORE_STD",
                [dtype |-> ScoresDtype(t),
                 vals |-> [r \in 1..NRows(t) |-> RowStd(ScoreRow(t, r))]])
    ELSE t

AddStd(t) ==
    IF AllScoreCols(t)
    THEN SetCol(t, "SCORE_STD",
                [dtype |-> ScoresDtype(t),
                 vals |-> [r \in 1..NRows(t) |-> RowStd(ScoreRow(t, r))]])
    ELSE t

AddBestWorst(t) ==
    IF AllScoreCols(t)
    THEN SetCol(
            SetCol(t, "BEST_SUBJECT",
                   [dtype |-> "object",
                    vals |-> [r \in 1..NRows(t) |-> SubjectLabel(IdxMax(ScoreRow(t, r)))]]),
            "WORST_SUBJECT",
            [dtype |-> "object",
             vals |-> [r \in 1..NRows(t) |-> SubjectLabel(IdxMin(ScoreRow(t, r)))]])
    ELSE t

create_derived_features(t) == AddBestWorst(AddStd(AddAverage(t)))

----------------------------------------------------------------------------
\* The tables the pipeline starts from: raw data as read from the CSV file.

\* The values a raw column can hold.
RawValues(name) ==
    CASE name = "NU_ANO" -> {Num(2023), Num(40000)}
      [] name = "TP_FAIXA_ETARIA" -> {NA, Num(0), Num(300)}
      [] name = "TP_SEXO" -> {NA, Str("M"), Str("F"), Str("X")}
      [] name = "TP_ESCOLA" -> {NA, Num(1), Num(9)}
      [] name = "NU_NOTA_REDACAO" -> {NA, Num(0), Num(1001)}
      [] name = "NU_NOTA_CN" -> {NA, Num(-1), Num(1000), Num(1001)}
      [] OTHER -> {NA, Num(0), Num(1000)}

\* The dtype read_csv gives a column: object for strings, float64 for scores
\* and for a column with missing values and no string, int64 for integers.
RawDtype(name, vals) ==
    IF \E i \in DOMAIN vals : vals[i].k = "str" THEN "object"
    ELSE IF DTYPE_MAPPINGS(name) = "float32" \/ \E i \in DOMAIN vals : IsNA(vals[i])
    THEN "float64"
    ELSE "int64"

RawColumns(name, n) ==
    {[dtype |-> RawDtype(name, vals), vals |-> vals] :
        vals \in [1..n -> RawValues(name)]}

NarrowCols ==
    {"NU_ANO", "TP_FAIXA_ETARIA", "TP_SEXO", "TP_ESCOLA", "NU_NOTA_CN",
     "NU_NOTA_REDACAO"}

\* The column sets of the initial tables: up to MaxCols columns of any kind,
\* or a score sheet holding three or all four of the core score columns.
NarrowShapes == {S \in SUBSET NarrowCols : S # {} /\ Cardinality(S) <= MaxCols}
SheetShapes == {S \in SUBSET Range(score_cols) : Cardinality(S) >= Len(score_cols) - 1}

RawTables(S, n) ==
    {t \in [S -> UNION {RawColumns(c, n) : c \in S}] : \A c \in S : t[c] \in RawColumns(c, n)}

NoCall == [op |-> "load", numeric_strategy |-> "", categorical_strategy |-> ""]

Call(op) == [op |-> op, numeric_strategy |-> "", categorical_strategy |-> ""]

NumericStrategies == {"mean", "median", "zero"}
CategoricalStrategies == {"mode", "unknown"}

\* The documented order of the stages; a stage may be skipped or run again.
StageIndex(op) ==
    CASE op = "load" -> 0
      [] op = "optimize_dtypes" -> 1
      [] op = "map_categories" -> 2
      [] op = "handle_missing_values" -> 3
      [] op = "validate_data" -> 4
      [] op = "create_derived_features" -> 5

Init ==
    /\ \/ \E S \in NarrowShapes : \E n \in 1..MaxRows : df \in RawTables(S, n)
       \/ \E S \in SheetShapes : df \in RawTables(S, SheetRows)
    /\ call = NoCall
    /\ rerun = FALSE
    /\ imputation_values = {}
    /\ issues = <<>>
    /\ raised = FALSE

\* A stage can be called while no exception has ended the run; a stage that
\* is run again is run with the same arguments.
CanCall(c) ==
    /\ ~raised
    /\ StageIndex(c.op) >= StageIndex(call.op)
    /\ c.op = call.op => c = call

Called(c) ==
    /\ call' = c
    /\ rerun' = (c = call)

OptimizeDtypes ==
    /\ CanCall(Call("optimize_dtypes"))
    /\ df' = optimize_dtypes(df)
    /\ Called(Call("optimize_dtypes"))
    /\ imputation_values' = {}
    /\ issues' = <<>>
    /\ UNCHANGED raised

MapCategories ==
    /\ CanCall(Call("map_categories"))
    /\ df' = map_categories(df)
    /\ Called(Call("map_categories"))
    /\ imputation_values' = {}
    /\ issues' = <<>>
    /\ UNCHANGED raised

HandleMissingValues ==
    \E ns \in NumericStrategies, cs \in CategoricalStrategies :
        LET c == [op |-> "handle_missing_values", numeric_strategy |-> ns,
                  categorical_strategy |-> cs]
            r == handle_missing_values(df, ns, cs)
        IN  /\ CanCall(c)
            /\ df' = r.df
            /\ raised' = r.raised
            /\ imputation_values' = IF r.raised THEN {} ELSE r.imputation_values
            /\ issues' = <<>>
            /\ Called(c)

\* validate_data writing NaN over every out-of-range score it counts.
ValidateDataClearing ==
    /\ CanCall(Call("validate_data"))
    /\ raised' = validate_data_raises(df)
    /\ issues' = IF validate_data_raises(df) THEN <<>> ELSE validate_data(df)
    /\ Called(Call("validate_data"))
    /\ imputation_values' = {}
    /\ df' = [c \in DOMAIN df |->
                IF c \in ComparedCols \ {"TP_FAIXA_ETARIA"}
                THEN [df[c] EXCEPT !.vals =
                        [i \in DOMAIN df[c].vals |->
                            IF InvalidScore(df[c].vals[i]) THEN NA ELSE df[c].vals[i]]]
                ELSE df[c]]

\* The masks and the selections df[mask][col] are new objects: nothing is
\* assigned to df. An exception of a comparison leaves the function.
ValidateData ==
    /\ CanCall(Call("validate_data"))
    /\ raised' = validate_data_raises(df)
    /\ issues' = IF validate_data_raises(df) THEN <<>> ELSE validate_data(df)
    /\ Called(Call("validate_data"))
    /\ imputation_values' = {}
    /\ UNCHANGED df

CreateDerivedFeatures ==
    /\ CanCall(Call("create_derived_features"))
    /\ df' = create_derived_features(df)
    /\ Called(Call("create_derived_features"))
    /\ imputation_values' = {}
    /\ issues' = <<>>
    /\ UNCHANGED raised

Next ==
    \/ OptimizeDtypes
    \/ MapCategories
    \/ HandleMissingValues
    \/ ValidateData
    \/ CreateDerivedFeatures

Spec == Init /\ [][Next]_vars

----------------------------------------------------------------------------
\* Properties.

ConfiguredCategorical(t) == DOMAIN t \cap Range(CATEGORY_ORDER)

\* C1: after map_categories, every value of every column that has a
\* code-to-label table is a label of that table or "Unknown"; no raw code
\* and no missing value is left.
C1_OnlyLabelsAfterMapping ==
    call.op = "map_categories" =>
        \A c \in ConfiguredCategorical(df) : \A i \in DOMAIN df[c].vals :
            /\ df[c].vals[i].k = "str"
            /\ df[c].vals[i].s \in Labels(c) \cup {"Unknown"}

\* numeric dtypes, and the categorical/text ones
IsNumberDtype(dtype) == IsIntDtype(dtype) \/ dtype \in {"float32", "float64"}
IsTextDtype(dtype) == dtype \in {"category", "object"}

\* C2: after handle_missing_values returns, whatever the strategies, no
\* numeric and no categorical/text column holds a missing value.
C2_NoMissingAfterHandling ==
    (call.op = "handle_missing_values" /\ ~raised) =>
        \A c \in DOMAIN df :
            (IsNumberDtype(df[c].dtype) \/ IsTextDtype(df[c].dtype)) =>
                \A i \in DOMAIN df[c].vals : df[c].vals[i].k # "na"

\* C3: a second call of handle_missing_values, on the table the first call
\* returned and with the same strategies, returns an empty mapping and leaves
\* the table unchanged.
C3_SecondHandlingIsEmpty ==
    [][(call.op = "handle_missing_values" /\ call' = call /\ ~raised')
          => (imputation_values' = {} /\ df' = df)]_vars

\* C4 as stated: running optimize_dtypes, map_categories, validate_data or
\* create_derived_features again, right after itself, changes neither the
\* table nor the returned issue list.
C4_EveryStageIdempotent ==
    [][(call.op \in {"optimize_dtypes", "map_categories", "validate_data",
                     "create_derived_features"} /\ call' = call)
          => (df' = df /\ issues' = issues)]_vars

\* C4 as amended: running optimize_dtypes, validate_data or
\* create_derived_features again, right after itself, changes neither the
\* table nor the returned issue list; running map_categories again leaves a
\* column that has a code-to-label table as it was or with every value
\* "Unknown", and changes no other column.
C4_StagesIdempotentExceptMapping ==
    [][/\ (call.op \in {"optimize_dtypes", "validate_data", "create_derived_features"}
              /\ call' = call)
            => (df' = df /\ issues' = issues)
       /\ (call.op = "map_categories" /\ call' = call) =>
            /\ DOMAIN df' = DOMAIN df
            /\ \A c \in DOMAIN df \ ConfiguredCategorical(df) : df'[c] = df[c]
            /\ \A c \in ConfiguredCategorical(df) :
                  \/ df'[c] = df[c]
                  \/ \A i \in DOMAIN df'[c].vals : df'[c].vals[i] = Str("Unknown")]_vars

C4_Witness ==
    /\ rerun
    /\ call.op = "create_derived_features"
    /\ DerivedCols \subseteq DOMAIN df
    /\ \E r \in 1..NRows(df) : df["SCORE_STD"].vals[r].k = "sqrt"

\* The range of a signed integer dtype contains the number of the cell.
\* (Every modelled number is in the range of int64.)
InIntRange(cell, dtype) ==
    CASE dtype = "int8" -> -128 * cell.d <= cell.n /\ cell.n <= 127 * cell.d
      [] dtype = "int16" -> -32768 * cell.d <= cell.n /\ cell.n <= 32767 * cell.d
      [] OTHER -> TRUE

\* C5: optimize_dtypes leaves a column with a signed integer target
\* unconverted, every value unchanged, when one of its values lies outside
\* the range of the target.
C5_OutOfRangeLeftUnconverted ==
    [][call'.op = "optimize_dtypes" =>
          \A c \in DOMAIN df :
              (/\ IsIntDtype(DTYPE_MAPPINGS(c))
               /\ \E i \in DOMAIN df[c].vals :
                     /\ df[c].vals[i].k = "num"
                     /\ ~InIntRange(df[c].vals[i], DTYPE_MAPPINGS(c)))
              => df'[c] = df[c]]_vars

\* The table without column c.
Without(t, c) == [x \in DOMAIN t \ {c} |-> t[x]]

\* C6: when the conversion (optimize_dtypes) or the mapping (map_categories)
\* of a column fails, the stage does not raise, the column is left as it
\* was, and every other column comes out as it does from the same stage run
\* on the table without the failing column.
C6_PerColumnIsolation ==
    [][/\ call'.op = "optimize_dtypes" =>
            /\ ~raised'
            /\ \A c \in DOMAIN df \cap Range(DTYPE_ORDER) :
                  ~astype(df[c], DTYPE_MAPPINGS(c)).ok =>
                      /\ df'[c] = df[c]
                      /\ \A x \in DOMAIN df \ {c} :
                            df'[x] = optimize_dtypes(Without(df, c))[x]
       /\ call'.op = "map_categories" =>
            /\ ~raised'
            /\ \A c \in ConfiguredCategorical(df) :
                  ~MapFill(df[c], CATEGORY_MAPPINGS(c)).ok =>
                      /\ df'[c] = df[c]
                      /\ \A x \in DOMAIN df \ {c} :
                            df'[x] = map_categories(Without(df, c))[x]]_vars

\* optimize_dtypes has just failed on the age bracket (NaN cannot become
\* int8) and converted the column configured after it.
C6_Witness ==
    /\ call.op = "optimize_dtypes"
    /\ ~rerun
    /\ DOMAIN df = {"TP_FAIXA_ETARIA", "TP_SEXO"}
    /\ df["TP_FAIXA_ETARIA"].dtype = "float64"
    /\ HasNull(df["TP_FAIXA_ETARIA"])
    /\ df["TP_SEXO"].dtype = "category"

\* The value the mapping m gives column c, when c is one of its keys.
IsKey(m, c) == \E p \in m : p[1] = c
ValueOf(m, c) == (CHOOSE p \in m : p[1] = c)[2]

\* C7: the keys of the mapping handle_missing_values returns are exactly the
\* columns the call modified (those that had a missing value and differ
\* afterwards); a column with no missing value is untouched; and in a key's
\* column every cell that was missing holds the mapped value and every other
\* cell is unchanged.
C7_MappingKeysAreModifiedColumns ==
    [][(call'.op = "handle_missing_values" /\ ~raised') =>
          /\ \A p \in imputation_values' : p[1] \in DOMAIN df
          /\ \A p, q \in imputation_values' : p[1] = q[1] => p = q
          /\ \A c \in DOMAIN df :
                /\ IsKey(imputation_values', c) <=> (HasNull(df[c]) /\ df'[c] # df[c])
                /\ ~HasNull(df[c]) => df'[c] = df[c]
                /\ IsKey(imputation_values', c) =>
                      \A i \in DOMAIN df[c].vals :
                          df'[c].vals[i] =
                              IF IsNA(df[c].vals[i])
                              THEN ValueOf(imputation_values', c)
                              ELSE df[c].vals[i]]_vars

\* The columns validate_data checks for scores in [0, 1000].
CheckedScoreCols == Range(score_cols) \cup {"NU_NOTA_REDACAO"}

\* The number of values of column c of t that are out of range: a score
\* below 0 or above 1000, an age bracket below 1; 0 when c is absent.
OutOfRangeCount(t, c) ==
    IF c \notin DOMAIN t THEN 0
    ELSE Cardinality({i \in DOMAIN t[c].vals :
            /\ t[c].vals[i].k = "num"
            /\ IF c = "TP_FAIXA_ETARIA"
               THEN t[c].vals[i].n < t[c].vals[i].d
               ELSE t[c].vals[i].n < 0 \/ t[c].vals[i].n > 1000 * t[c].vals[i].d})

IssuesAbout(list, c) == {k \in DOMAIN list : list[k].col = c}

\* C8: validate_data returns one issue, carrying the count, for each checked
\* column with an out-of-range value and nothing else; so replacing a value
\* of a score column that has no issue by an out-of-range one gives that
\* column exactly one issue.
C8_OneIssuePerInvalidColumn ==
    call.op = "validate_data" =>
        /\ \A k \in DOMAIN issues : issues[k].col \in CheckedScoreCols \cup {"TP_FAIXA_ETARIA"}
        /\ \A c \in CheckedScoreCols \cup {"TP_FAIXA_ETARIA"} :
              IF OutOfRangeCount(df, c) > 0
              THEN /\ Cardinality(IssuesAbout(issues, c)) = 1
                   /\ \A k \in IssuesAbout(issues, c) :
                          issues[k].count = OutOfRangeCount(df, c)
              ELSE IssuesAbout(issues, c) = {}
        /\ \A c \in CheckedScoreCols \cap DOMAIN df :
              IssuesAbout(issues, c) = {} =>
                  \A i \in DOMAIN df[c].vals : \A v \in {Num(1500), Num(-1)} :
                      Cardinality(IssuesAbout(
                          validate_data([df EXCEPT ![c].vals[i] = v]), c)) = 1

\* validate_data has reported a column with two invalid values and nothing
\* about another score column, which has none.
C8_Witness ==
    /\ call.op = "validate_data"
    /\ Len(issues) = 1
    /\ issues[1].count = 2
    /\ \E c \in CheckedScoreCols \cap DOMAIN df : IssuesAbout(issues, c) = {}

\* C9: create_derived_features adds the four derived columns when all four
\* core score columns are in the table and otherwise returns the table as it
\* was; it does not raise, and afterwards the table holds all four derived
\* columns or none.
C9_DerivedAllOrNothing ==
    [][call'.op = "create_derived_features" =>
          /\ ~raised'
          /\ IF {"NU_NOTA_CN", "NU_NOTA_CH", "NU_NOTA_LC", "NU_NOTA_MT"} \subseteq DOMAIN df
             THEN /\ DerivedCols \subseteq DOMAIN df'
                  /\ DOMAIN df' = DOMAIN df \cup DerivedCols
             ELSE /\ df' = df
                  /\ DerivedCols \cap DOMAIN df' = {}]_vars

\* create_derived_features has run on a table with exactly one core score
\* column absent, and added nothing.
C9_Witness ==
    /\ call.op = "create_derived_features"
    /\ DOMAIN df \subseteq Range(score_cols)
    /\ Cardinality(DOMAIN df) = Len(score_cols) - 1

\* C10: with all four core score columns present, in every row with a score
\* BEST_SUBJECT names the first column, in the order CN, CH, LC, MT, that
\* holds the row's largest score, and WORST_SUBJECT the first that holds its
\* smallest.
C10_BestWorstFirstExtreme ==
    (call.op = "create_derived_features" /\ AllScoreCols(df)) =>
        \A r \in 1..NRows(df) :
            LET row == ScoreRow(df, r)
                has == {i \in 1..4 : row[i].k = "num"}
            IN  has # {} =>
                  /\ \E i \in has :
                        /\ df["BEST_SUBJECT"].vals[r] = Str(SubjectName(score_cols[i]))
                        /\ \A j \in has : row[j].n * row[i].d <= row[i].n * row[j].d
                        /\ \A j \in has : j < i => row[j].n * row[i].d < row[i].n * row[j].d
                  /\ \E i \in has :
                        /\ df["WORST_SUBJECT"].vals[r] = Str(SubjectName(score_cols[i]))
                        /\ \A j \in has : row[i].n * row[j].d <= row[j].n * row[i].d
                        /\ \A j \in has : j < i => row[i].n * row[j].d < row[j].n * row[i].d

\* A row whose largest score is shared by LC and MT and whose smallest by CN
\* and CH has got Languages as best and Natural Sciences as worst subject.
C10_Witness ==
    /\ call.op = "create_derived_features"
    /\ AllScoreCols(df)
    /\ \E r \in 1..NRows(df) :
          /\ df["NU_NOTA_LC"].vals[r] = df["NU_NOTA_MT"].vals[r]
          /\ df["NU_NOTA_CN"].vals[r] = df["NU_NOTA_CH"].vals[r]
          /\ df["NU_NOTA_CN"].vals[r].k = "num"
          /\ df["NU_NOTA_LC"].vals[r].k = "num"
          /\ Lt(df["NU_NOTA_CN"].vals[r], df["NU_NOTA_LC"].vals[r])
          /\ df["BEST_SUBJECT"].vals[r] = Str("Languages")
          /\ df["WORST_SUBJECT"].vals[r] = Str("Natural Sciences")

\* C11: validate_data leaves the table as it was, column for column and cell
\* for cell with no column added or removed, whatever out-of-range scores,
\* missing values or invalid age brackets the table holds, and it returns
\* its issue list instead of raising.
C11_ValidateLeavesTableUnchanged ==
    [][(call'.op = "validate_data" /\ ~raised) =>
          /\ df' = df
          /\ DOMAIN df' = DOMAIN df
          /\ ~raised'
          /\ issues' = validate_data(df)]_vars

\* validate_data has returned two issues, one about scores and one about age
\* brackets, for a table that also holds a missing value.
C11_Witness ==
    /\ call.op = "validate_data"
    /\ ~raised
    /\ Len(issues) = 2
    /\ IssuesAbout(issues, "TP_FAIXA_ETARIA") # {}
    /\ \E c \in DOMAIN df : HasNull(df[c])

\* C12: in the order of the stages, handle_missing_values makes no valid
\* table invalid: when validate_data returns the empty list on a table, it
\* returns the empty list on the table handle_missing_values returns for it,
\* for every numeric and categorical strategy; a number imputed into a score
\* column lies in [0, 1000] and one imputed into TP_FAIXA_ETARIA is at
\* least 1.
C12_HandlingKeepsTableValid ==
    [][(/\ call'.op = "handle_missing_values"
        /\ ~raised /\ ~raised'
        /\ ~validate_data_raises(df)
        /\ validate_data(df) = <<>>) =>
          /\ validate_data(df') = <<>>
          /\ \A c \in CheckedScoreCols :
                (IsKey(imputation_values', c) /\ ~IsNA(ValueOf(imputation_values', c))) =>
                    /\ Le(Num(0), ValueOf(imputation_values', c))
                    /\ Le(ValueOf(imputation_values', c), Num(1000))
          /\ (/\ IsKey(imputation_values', "TP_FAIXA_ETARIA")
              /\ ~IsNA(ValueOf(imputation_values', "TP_FAIXA_ETARIA"))) =>
                    Le(Num(1), ValueOf(imputation_values', "TP_FAIXA_ETARIA"))]_vars

====
